---- MODULE Spec2Model ----
(***************************************************************************)
(* A model of ankh (src/ankh/cli.py, kubectl.py, helm.py, utils.py): one   *)
(* invocation of `ankh apply` / `ankh template` from run() to the process  *)
(* exit, the configuration deep-merge, the gathering of the configuration  *)
(* files, the command builder, use-context, and the pipes of a pipeline.   *)
(*                                                                         *)
(*   Spec        the run: validation, bootstrap scripts, target            *)
(*               resolution, confirmation, pipeline spawn, reporting       *)
(*   SpecMerge   merge_config applied to one pair of configuration trees   *)
(*   SpecGather  gather_config over the context fragment and the files     *)
(*   SpecBuild   kubectl_chart_action_commands: both argument vectors      *)
(*   SpecContext use_context_command on the user's context file            *)
(*   SpecPipes   one pipeline's processes and pipes under the report loop  *)
(***************************************************************************)
EXTENDS Integers, Sequences, FiniteSets, TLC

\* ------------------------------------------------------------------ bounds
\* Longest declared chart list (global_config['charts']['charts']).
MaxCharts == 2
\* Longest bootstrap script list (global_config['bootstrap']['scripts']).
MaxScripts == 1
\* Most --config-file arguments appended to the default list.
MaxFiles == 2

\* --------------------------------------------------------------- constants
\* A key that is absent from a mapping, an option that was not given
\* (Python's None for argparse options without a default).
NoValue == "<none>"
\* Popen.returncode before wait(), and the invocation's status while it runs.
RcNone == 256
\* Exit statuses a child process is observed with at wait().
ExitCodes == {0, 1}

SeqsUpTo(S, n) == UNION {[1..k -> S] : k \in 0..n}

\* ------------------------------------------------------------------ inputs
\* Charts as they are declared in the configuration.  A chart is the dict of
\* one `charts` entry: has_name / has_chartref say whether the key is present.
Chart(has_name, name, version, has_chartref, chartref) ==
    [has_name |-> has_name, name |-> name, version |-> version,
     has_chartref |-> has_chartref, chartref |-> chartref]

NoNameChart   == Chart(FALSE, NoValue, "1", TRUE, "x/")
RefChart      == Chart(TRUE, "a", NoValue, TRUE, "a/")
FetchChartB1  == Chart(TRUE, "b", "1", FALSE, NoValue)
FetchChartB2  == Chart(TRUE, "b", "2", FALSE, NoValue)
EmptyRefChart == Chart(TRUE, "c", NoValue, TRUE, "")

ChartKinds == {NoNameChart, RefChart, FetchChartB1, FetchChartB2, EmptyRefChart}

\* Values of --chart: not given, a declared name, or a path on disk.
ChartArgs == {NoValue, "a", "b", "./c"}
\* The paths for which os.path.isdir / isfile answer true.
LocalCharts == {"./c"}

\* Answers typed at the confirmation prompt.
Answers == {"y", "Y", "n", "", "yes"}

\* A bootstrap script entry: with or without its `path` key.
Script(has_path) == [has_path |-> has_path]

ArgsRec(command, yes, explain, dry_run, chart, hru, kc) ==
    [command |-> command, yes |-> yes, explain |-> explain, dry_run |-> dry_run,
     chart |-> chart, helm_registry_url |-> hru, kube_context |-> kc]

ConfigRec(kc, env, profile, hru, deps, ingress, has_bootstrap, scripts, has_charts, charts) ==
    [kube_context |-> kc, environment |-> env, profile |-> profile,
     helm_registry_url |-> hru, has_dependencies |-> deps,
     has_context_ingress |-> ingress,
     has_bootstrap |-> has_bootstrap, scripts |-> scripts,
     has_charts |-> has_charts, charts |-> charts]

KeyValues == {NoValue, "", "set"}

\* Inputs that vary what validation reads (cli.py:311-342 and the command
\* name), with a configuration that has scripts to run and charts to fetch.
ValidationInputs ==
    { <<ArgsRec(cmd, TRUE, FALSE, FALSE, NoValue, ahru, akc),
        ConfigRec(kc, env, profile, hru, deps, ingress,
                  TRUE, <<Script(TRUE)>>, TRUE, <<FetchChartB1, RefChart>>)>> :
        cmd \in {"apply", "template", "aply"},
        ahru \in {NoValue, "set"}, akc \in {NoValue, "set"},
        kc \in KeyValues, env \in KeyValues, profile \in KeyValues,
        hru \in KeyValues, deps \in BOOLEAN, ingress \in BOOLEAN }

\* The `bootstrap` section: absent, or its list of scripts.
BootstrapOptions ==
    {<<FALSE, <<>>>>} \cup
    {<<TRUE, scripts>> : scripts \in SeqsUpTo({Script(TRUE), Script(FALSE)}, MaxScripts)}

\* The `charts` section: absent, or its list of charts.
ChartsOptions ==
    {<<FALSE, <<>>>>} \cup {<<TRUE, charts>> : charts \in SeqsUpTo(ChartKinds, MaxCharts)}

\* Inputs that vary what is read after validation, with the required keys
\* set.  template_command reads neither `bootstrap` nor --dry-run.
ExecInputs ==
    { <<ArgsRec("apply", yes, explain, dry_run, chart, NoValue, NoValue),
        ConfigRec("set", "set", "set", "set", FALSE, TRUE, b[1], b[2], c[1], c[2])>> :
        yes \in BOOLEAN, explain \in BOOLEAN, dry_run \in BOOLEAN,
        chart \in ChartArgs, b \in BootstrapOptions, c \in ChartsOptions }
    \cup
    { <<ArgsRec("template", yes, explain, FALSE, chart, NoValue, NoValue),
        ConfigRec("set", "set", "set", "set", FALSE, TRUE, FALSE, <<>>, c[1], c[2])>> :
        yes \in BOOLEAN, explain \in BOOLEAN,
        chart \in ChartArgs, c \in ChartsOptions }

\* ------------------------------------------------------------------- state
VARIABLES
    args,           \* the parsed command line (cli.py:231-247)
    global_config,  \* the gathered configuration run() works on
    pc,             \* where the invocation is
    idx,            \* index of the loop the invocation is in
    targets,        \* kubectl_action: the resolved target list
    procs,          \* kubectl_action_targets: (name, hproc, kproc) per pipeline
    spawned,        \* every process spawned so far, in order
    reports,        \* the "OK" / "FAILED" lines logged for pipeline stages
    printed,        \* the pipeline lines printed in explain mode
    answer,         \* what raw_input returned
    fatal,          \* the fatal error the invocation ended on, if any
    exit_status,    \* the status the process exits with
    mtarget,        \* merge_config: the tree merged into
    msource,        \* merge_config: the tree merged from
    mresult,        \* merge_config: what the call gave
    mpc,            \* where the merge_config call is
    ankhconfig,     \* the user's context file (args.ankhconfig)
    config_files,   \* args.config_files, the default first
    files,          \* the project files on disk: path -> existence and content
    gathered,       \* gather_config: its local global_config
    gidx,           \* gather_config: index into config_files
    gpc,            \* where gather_config is
    gstatus         \* the status gather_config's process exited with

runvars == <<args, global_config, pc, idx, targets, procs, spawned, reports,
             printed, answer, fatal, exit_status>>
mergevars == <<mtarget, msource, mresult, mpc>>
gathervars == <<ankhconfig, config_files, files, gathered, gidx, gpc, gstatus>>

VARIABLES
    hchart,         \* kubectl_chart_action_commands: the chart dict
    hconfig,        \* kubectl_chart_action_commands: the global_config it reads
    hargs,          \* kubectl_chart_action_commands: action and command-line flags
    archive,        \* what the chart archive at chartref holds
    cwd_files,      \* the values files present under the working directory
    tmpfiles,       \* the temporary files written so far (name by position)
    helm,           \* the template-stage argument vector
    kubectl,        \* the action-stage argument vector
    hpc,            \* where the command builder is
    ankhfile,       \* use-context: the user's context file as a YAML document
    ankhfile0,      \* use-context: the document before the first switch
    switches,       \* use-context: the arguments of the switches so far
    ctx_ret,        \* use-context: what the last use_context_command returned
    ctx_error,      \* use-context: the exception the last call raised, if any
    hchild,         \* pipes: the template process (bytes left to write, exited)
    kchild,         \* pipes: the action process (bytes left to write, exited)
    pipes,          \* pipes: bytes buffered in each of the four pipes
    epc,            \* pipes: where the engine's report loop is
    estatus         \* pipes: the status the engine left with

buildvars == <<hchart, hconfig, hargs, archive, cwd_files, tmpfiles, helm, kubectl, hpc>>
ctxvars == <<ankhfile, ankhfile0, switches, ctx_ret, ctx_error>>
pipevars == <<hchild, kchild, pipes, epc, estatus>>
auxvars == <<buildvars, ctxvars, pipevars>>
vars == <<runvars, mergevars, gathervars, auxvars>>

\* A spawned process: kind is script, curl, inspect, helm or kubectl.
Proc(kind, name, version) == [kind |-> kind, name |-> name, version |-> version]

\* The invocation ends: sys.exit(status), or main() returning status to the
\* console-script wrapper (setup.py:18), or an uncaught exception (status 1).
Exit(status, why) ==
    /\ pc' = "exit"
    /\ exit_status' = status
    /\ fatal' = why

\* =================================================== configuration trees ==
\* A configuration value is a scalar, a list or a mapping; t says which, and
\* the field of that kind holds it (the other two are empty).
Scalar(n) == [t |-> "scalar", s |-> n, l |-> <<>>, m |-> <<>>]
List(l)   == [t |-> "list", s |-> 0, l |-> l, m |-> <<>>]
Map(m)    == [t |-> "map", s |-> 0, l |-> <<>>, m |-> m]

EmptyTree == Map(<<>>)

PartialFns(K, V) == UNION {[D -> V] : D \in SUBSET K}

\* What a call gave: a value, or an exception raised.
Ok(v) == [ok |-> TRUE, val |-> v]
Raised == [ok |-> FALSE, val |-> EmptyTree]

\* target.get(key, default), cli.py:160, 163.
Get(target, key, default) ==
    IF key \in DOMAIN target.m THEN target.m[key] ELSE default

\* List concatenation with the source's items first.
Concat_SourceFirst(existing, val) == val \o existing

\* cli.py:163: target.get(key, []) + val.
Concat(existing, val) == existing \o val

\* merge_config, cli.py:155-166.  On a target that is not a mapping (reached
\* through the recursive call of line 160) target.get raises AttributeError
\* and target[key] = ... raises TypeError; `+` raises TypeError when the
\* target's value is not a list (line 163).
RECURSIVE merge_config(_, _)
merge_config(target, source) ==
    IF DOMAIN source.m = {}
    THEN Ok(target)
    ELSE IF target.t # "map"
    THEN Raised
    ELSE LET item(key) ==
                 LET val == source.m[key]
                 IN IF val.t = "map"
                    THEN merge_config(Get(target, key, EmptyTree), val)
                    ELSE IF val.t = "list"
                    THEN IF Get(target, key, List(<<>>)).t = "list"
                         THEN Ok(List(Concat(Get(target, key, List(<<>>)).l, val.l)))
                         ELSE Raised
                    ELSE Ok(val)
         IN IF \E key \in DOMAIN source.m : ~item(key).ok
            THEN Raised
            ELSE Ok(Map([key \in DOMAIN target.m \cup DOMAIN source.m |->
                           IF key \in DOMAIN source.m
                           THEN item(key).val
                           ELSE target.m[key]]))

\* The trees merge_config is tried on: two top-level keys, values that are
\* scalars, lists, or mappings of scalars and lists.
NestedMaps == {Map(m) : m \in PartialFns({"x", "y"}, {Scalar(1), List(<<1>>)})}
MergeValues == {Scalar(1), Scalar(2), List(<<1>>), List(<<2>>)} \cup NestedMaps
MergeTrees == {Map(m) : m \in PartialFns({"a", "b"}, MergeValues)}

IdleRun ==
    /\ args = NoValue /\ global_config = NoValue /\ pc = "idle" /\ idx = 0
    /\ targets = <<>> /\ procs = <<>> /\ spawned = <<>> /\ reports = <<>>
    /\ printed = <<>> /\ answer = NoValue /\ fatal = NoValue /\ exit_status = RcNone

IdleMerge ==
    mtarget = EmptyTree /\ msource = EmptyTree /\ mresult = Raised /\ mpc = "idle"

IdleGather ==
    /\ ankhconfig = NoValue /\ config_files = <<>> /\ files = <<>>
    /\ gathered = EmptyTree /\ gidx = 0 /\ gpc = "idle" /\ gstatus = RcNone

IdleBuild ==
    /\ hchart = NoValue /\ hconfig = NoValue /\ hargs = NoValue /\ archive = NoValue
    /\ cwd_files = {} /\ tmpfiles = <<>> /\ helm = <<>> /\ kubectl = <<>> /\ hpc = "idle"

IdleContext ==
    /\ ankhfile = <<>> /\ ankhfile0 = <<>> /\ switches = <<>>
    /\ ctx_ret = RcNone /\ ctx_error = NoValue

IdlePipes ==
    /\ hchild = NoValue /\ kchild = NoValue /\ pipes = NoValue
    /\ epc = "idle" /\ estatus = RcNone

IdleAux == IdleBuild /\ IdleContext /\ IdlePipes

InitMerge ==
    /\ mtarget \in MergeTrees
    /\ msource \in MergeTrees
    /\ mresult = Raised
    /\ mpc = "call"
    /\ IdleRun /\ IdleGather /\ IdleAux

\* One call of merge_config(target, source).
Merge ==
    /\ mpc = "call"
    /\ mresult' = merge_config(mtarget, msource)
    /\ mpc' = "done"
    /\ UNCHANGED <<mtarget, msource, runvars, gathervars, auxvars>>

NextMerge == Merge

SpecMerge == InitMerge /\ [][NextMerge]_vars

\* C9: merge(target, source) is defined for every pair of trees; for a key of
\* both, two mappings give their recursive merge, and a scalar source value or
\* a source value of another type than the target's replaces the target's
\* value; keys only in target are unchanged.
C9_MergeTotalSourceWins ==
    mpc = "done" =>
       /\ mresult.ok
       /\ \A k \in DOMAIN msource.m \cap DOMAIN mtarget.m :
             LET sv == msource.m[k]
                 tv == mtarget.m[k]
             IN /\ (sv.t = "map" /\ tv.t = "map") =>
                      mresult.val.m[k] = merge_config(tv, sv).val
                /\ (sv.t = "scalar" \/ sv.t # tv.t) => mresult.val.m[k] = sv
       /\ \A k \in DOMAIN mtarget.m \ DOMAIN msource.m :
             mresult.val.m[k] = mtarget.m[k]

\* ================================================================ gather ==
\* The filename argparse seeds --config-file with (cli.py:241); `append` adds
\* the files the caller names after it.
DefaultConfigFile == "ankh.yaml"
NamedConfigFiles == {"f1.yaml", "f2.yaml"}

Tree1(k, v) == Map([key \in {k} |-> v])
Tree2(va, vb) == Map([key \in {"a", "b"} |-> IF key = "a" THEN va ELSE vb])

\* The documents the files and the context fragment hold.
GatherTrees ==
    { EmptyTree,
      Tree2(Scalar(1), List(<<1>>)),
      Tree2(Scalar(2), List(<<2>>)),
      Tree1("b", List(<<1, 2>>)),
      Tree1("a", List(<<1>>)),
      Tree1("a", Tree1("x", Scalar(1))),
      Tree1("a", EmptyTree) }

\* A path on disk: absent, or a file holding a document.
NoFile == [exists |-> FALSE, content |-> EmptyTree]
File(content) == [exists |-> TRUE, content |-> content]

\* The user's context file: absent; without `current-context`; or with it
\* and a `contexts` mapping.
AnkhConfig(exists, has_current, current, contexts) ==
    [exists |-> exists, has_current |-> has_current, current |-> current,
     contexts |-> contexts]

AnkhConfigs ==
    { AnkhConfig(FALSE, FALSE, NoValue, <<>>),
      AnkhConfig(TRUE, FALSE, NoValue, [c \in {"prod"} |-> EmptyTree]),
      AnkhConfig(TRUE, TRUE, "dev", [c \in {"prod"} |-> Tree2(Scalar(1), List(<<1>>))]) }
    \cup { AnkhConfig(TRUE, TRUE, "prod", [c \in {"prod"} |-> t]) :
             t \in {Tree2(Scalar(1), List(<<1>>)), Tree1("b", List(<<1, 2>>)),
                    Tree1("a", Tree1("x", Scalar(1)))} }

\* ankh_config_read, cli.py:34-52: (found, subconfig) for the current context.
ankh_config_read(config) ==
    IF config.exists /\ config.has_current /\ config.current \in DOMAIN config.contexts
    THEN [found |-> TRUE, subconfig |-> config.contexts[config.current]]
    ELSE [found |-> FALSE, subconfig |-> EmptyTree]

\* cli.py:194: the test that lets a missing file pass.
MissingIsIgnored(config_file) == config_file # "ankh.yaml"

InitGather ==
    /\ ankhconfig \in AnkhConfigs
    /\ config_files \in {<<DefaultConfigFile>> \o named :
                           named \in SeqsUpTo(NamedConfigFiles, MaxFiles)}
    /\ files \in [{DefaultConfigFile} \cup NamedConfigFiles ->
                    {NoFile} \cup {File(t) : t \in GatherTrees}]
    /\ gathered = EmptyTree
    /\ gidx = 0
    /\ gpc = "context"
    /\ gstatus = RcNone
    /\ IdleRun /\ IdleMerge /\ IdleAux

\* GatherContext with the context fragment left out of the result.
GatherContext_Never ==
    /\ gpc = "context"
    /\ gpc' = "files"
    /\ gidx' = 1
    /\ UNCHANGED <<gathered, gstatus>>
    /\ UNCHANGED <<ankhconfig, config_files, files, runvars, mergevars, auxvars>>

\* gather_config, cli.py:181-186: the current context's fragment first.
GatherContext ==
    /\ gpc = "context"
    /\ LET read == ankh_config_read(ankhconfig)
           merged == merge_config(gathered, read.subconfig)
       IN IF ~read.found
          THEN gpc' = "files" /\ UNCHANGED <<gathered, gstatus>>
          ELSE IF merged.ok
          THEN gpc' = "files" /\ gathered' = merged.val /\ UNCHANGED gstatus
          ELSE gpc' = "raised" /\ gstatus' = 1 /\ UNCHANGED gathered
    /\ gidx' = 1
    /\ UNCHANGED <<ankhconfig, config_files, files, runvars, mergevars, auxvars>>

\* cli.py:187-193: the file exists; it is parsed and merged.
GatherFile ==
    /\ gpc = "files"
    /\ gidx <= Len(config_files)
    /\ files[config_files[gidx]].exists
    /\ LET merged == merge_config(gathered, files[config_files[gidx]].content)
       IN IF merged.ok
          THEN gathered' = merged.val /\ gidx' = gidx + 1 /\ UNCHANGED <<gpc, gstatus>>
          ELSE gpc' = "raised" /\ gstatus' = 1 /\ UNCHANGED <<gathered, gidx>>
    /\ UNCHANGED <<ankhconfig, config_files, files, runvars, mergevars, auxvars>>

\* cli.py:194-199: the file does not exist.
GatherMissing ==
    /\ gpc = "files"
    /\ gidx <= Len(config_files)
    /\ ~files[config_files[gidx]].exists
    /\ IF MissingIsIgnored(config_files[gidx])
       THEN gidx' = gidx + 1 /\ UNCHANGED <<gpc, gstatus>>
       ELSE gpc' = "missing" /\ gstatus' = 1 /\ UNCHANGED gidx
    /\ UNCHANGED <<gathered>>
    /\ UNCHANGED <<ankhconfig, config_files, files, runvars, mergevars, auxvars>>

\* cli.py:200: return global_config.
GatherDone ==
    /\ gpc = "files"
    /\ gidx > Len(config_files)
    /\ gpc' = "done"
    /\ UNCHANGED <<gathered, gidx, gstatus>>
    /\ UNCHANGED <<ankhconfig, config_files, files, runvars, mergevars, auxvars>>

NextGather ==
    \/ GatherContext
    \/ GatherFile
    \/ GatherMissing
    \/ GatherDone

SpecGather == InitGather /\ [][NextGather]_vars

\* gather_config is done with config_files[i]: it went past it, or ended on it.
Handled(i) == gidx > i \/ (gidx = i /\ gpc \in {"missing", "raised"})

\* C8: a missing file that is the default filename is skipped and gather goes
\* on; a missing file the caller named ends gather with status 1.
C8_MissingFilePolicy ==
    \A i \in 1..Len(config_files) :
       (Handled(i) /\ ~files[config_files[i]].exists) =>
          IF config_files[i] = DefaultConfigFile
          THEN gidx > i
          ELSE gidx = i /\ gpc = "missing" /\ gstatus = 1

\* The documents gather_config merges, in order: the fragment of the current
\* context if there is one, then the files that exist.
RECURSIVE ExistingFrom(_)
ExistingFrom(i) ==
    IF i > Len(config_files)
    THEN <<>>
    ELSE (IF files[config_files[i]].exists
          THEN <<files[config_files[i]].content>>
          ELSE <<>>) \o ExistingFrom(i + 1)

GatherSources ==
    (IF ankhconfig.exists /\ ankhconfig.has_current
        /\ ankhconfig.current \in DOMAIN ankhconfig.contexts
     THEN <<ankhconfig.contexts[ankhconfig.current]>>
     ELSE <<>>) \o ExistingFrom(1)

\* merge folded from the left over the first n documents, from an empty tree.
RECURSIVE FoldMerge(_, _)
FoldMerge(docs, n) ==
    IF n = 0 THEN EmptyTree ELSE merge_config(FoldMerge(docs, n - 1), docs[n]).val

\* The values the documents give key k, in order.
RECURSIVE ValuesOf(_, _, _)
ValuesOf(docs, k, i) ==
    IF i > Len(docs)
    THEN <<>>
    ELSE (IF k \in DOMAIN docs[i].m THEN <<docs[i].m[k]>> ELSE <<>>) \o ValuesOf(docs, k, i + 1)

RECURSIVE Flatten(_, _)
Flatten(vals, i) == IF i > Len(vals) THEN <<>> ELSE vals[i].l \o Flatten(vals, i + 1)

RECURSIVE SumLen(_, _)
SumLen(vals, i) == IF i > Len(vals) THEN 0 ELSE Len(vals[i].l) + SumLen(vals, i + 1)

\* C10: the gathered configuration is the left-to-right fold of merge over
\* the context fragment (if any) and the files: its keys are the keys of the
\* documents; a key that is a scalar wherever it occurs has the value of the
\* last document that sets it; a key that is a list wherever it occurs is the
\* concatenation of those lists in order, its length the sum of their lengths.
C10_GatherIsFold ==
    gpc = "done" =>
       LET docs == GatherSources
       IN /\ gathered = FoldMerge(docs, Len(docs))
          /\ DOMAIN gathered.m = UNION {DOMAIN docs[i].m : i \in 1..Len(docs)}
          /\ \A k \in DOMAIN gathered.m :
                LET vals == ValuesOf(docs, k, 1)
                IN /\ (\A j \in 1..Len(vals) : vals[j].t = "scalar") =>
                         gathered.m[k] = vals[Len(vals)]
                   /\ (\A j \in 1..Len(vals) : vals[j].t = "list") =>
                         /\ gathered.m[k] = List(Flatten(vals, 1))
                         /\ Len(gathered.m[k].l) = SumLen(vals, 1)

\* Gather is done over a context fragment {a:1,b:[1]} and the files
\* f1 = {a:1,b:[1]}, f2 = {a:2,b:[2]}, f2 again: {a:2, b:[1,1,2,2]}.
C10_Witness ==
    /\ gpc = "done"
    /\ Len(GatherSources) = 4
    /\ gathered = Tree2(Scalar(2), List(<<1, 1, 2, 2>>))

\* ============================================================== the run ==
\* A required key fails `'k' not in global_config or not global_config['k']`.
Missing(v) == v = NoValue \/ v = ""

\* Python truthiness of an optional command-line string.
Given(v) == v # NoValue /\ v # ""

\* cli.py:332-333: --helm-registry-url, when given, overrides the configuration.
\* (--kube-context is parsed at cli.py:242 and never copied into global_config.)
LayerOverrides(gc, a) ==
    IF Given(a.helm_registry_url)
    THEN [gc EXCEPT !.helm_registry_url = a.helm_registry_url]
    ELSE gc

\* apply_command and template_command end in `return 0` whatever kubectl_action
\* returned (cli.py:104-107, 112-115); main() hands that to the wrapper.
CommandStatus(ret) == 0

InitRun ==
    /\ \E in \in ValidationInputs \cup ExecInputs :
          /\ args = in[1]
          /\ global_config = in[2]
    /\ pc = "run"
    /\ idx = 1
    /\ targets = <<>>
    /\ procs = <<>>
    /\ spawned = <<>>
    /\ reports = <<>>
    /\ printed = <<>>
    /\ answer = NoValue
    /\ fatal = NoValue
    /\ exit_status = RcNone

\* run(), cli.py:306-362, up to the dispatch on the command.
Validate ==
    /\ pc = "run"
    /\ UNCHANGED <<args, targets, procs, spawned, reports, printed, answer>>
    /\ idx' = 1
    /\ IF global_config.has_dependencies
       THEN Exit(1, "recursive_dependencies") /\ UNCHANGED global_config
       ELSE IF \/ Missing(global_config.kube_context)
               \/ Missing(global_config.environment)
               \/ Missing(global_config.profile)
       THEN Exit(1, "missing_config") /\ UNCHANGED global_config
       ELSE /\ global_config' = LayerOverrides(global_config, args)
            /\ IF Missing(global_config'.helm_registry_url)
               THEN Exit(1, "missing_config")
               ELSE IF ~global_config.has_context_ingress
               THEN Exit(1, "crash")   \* template_ingress_hosts: KeyError
               ELSE IF args.command = "apply"
               THEN pc' = "bootstrap" /\ UNCHANGED <<fatal, exit_status>>
               ELSE IF args.command = "template"
               THEN pc' = "kubectl_action" /\ UNCHANGED <<fatal, exit_status>>
               ELSE Exit(1, "unknown_command")
    /\ UNCHANGED <<mergevars, gathervars, auxvars>>

\* run_scripts, cli.py:121-153: one iteration of the loop over the scripts.
RunScript ==
    /\ pc = "bootstrap"
    /\ global_config.has_bootstrap
    /\ idx <= Len(global_config.scripts)
    /\ spawned' = IF global_config.scripts[idx].has_path /\ ~args.dry_run
                  THEN Append(spawned, Proc("script", NoValue, NoValue))
                  ELSE spawned
    /\ idx' = idx + 1
    /\ UNCHANGED <<args, global_config, pc, targets, procs, reports, printed,
                   answer, fatal, exit_status>>
    /\ UNCHANGED <<mergevars, gathervars, auxvars>>

\* apply_command, cli.py:96-102: bootstrap is over (or there is none).
BootstrapDone ==
    /\ pc = "bootstrap"
    /\ ~global_config.has_bootstrap \/ idx > Len(global_config.scripts)
    /\ pc' = "kubectl_action"
    /\ idx' = 1
    /\ UNCHANGED <<args, global_config, targets, procs, spawned, reports,
                   printed, answer, fatal, exit_status>>
    /\ UNCHANGED <<mergevars, gathervars, auxvars>>

\* cli.py:105-107, 113-115: no `charts` section, nothing to do.
NoCharts ==
    /\ pc = "kubectl_action"
    /\ ~global_config.has_charts
    /\ Exit(CommandStatus(0), NoValue)
    /\ UNCHANGED <<args, global_config, idx, targets, procs, spawned, reports,
                   printed, answer>>
    /\ UNCHANGED <<mergevars, gathervars, auxvars>>

\* kubectl.py:71: --chart names a directory or a .tgz file on disk.
IsAdhoc(a) == Given(a.chart) /\ a.chart \in LocalCharts

\* kubectl_action, kubectl.py:71-76, with inspect_chart, helm.py:68-86.
InspectChart ==
    /\ pc = "kubectl_action"
    /\ global_config.has_charts
    /\ IsAdhoc(args)
    /\ spawned' = Append(spawned, Proc("inspect", args.chart, NoValue))
    /\ \E rc \in ExitCodes :
          targets' = << IF rc = 0
                        THEN Chart(TRUE, "c", "3", TRUE, args.chart)
                        ELSE Chart(FALSE, NoValue, NoValue, TRUE, args.chart) >>
    /\ pc' = "confirm"
    /\ UNCHANGED <<args, global_config, idx, procs, reports, printed, answer,
                   fatal, exit_status>>
    /\ UNCHANGED <<mergevars, gathervars, auxvars>>

\* kubectl.py:79-85: the entry has a name and passes the --chart filter.
Selected(chart, a) ==
    /\ chart.has_name
    /\ ~(Given(a.chart) /\ chart.name # a.chart)

\* helm.py:46-47: 'charts/%s-%s.tgz' % (name, version).
FetchPath(name, version) ==
    CASE name = "b" /\ version = "1" -> "charts/b-1.tgz"
      [] name = "b" /\ version = "2" -> "charts/b-2.tgz"
      [] OTHER -> "charts/other.tgz"

InResolveLoop ==
    /\ pc = "kubectl_action"
    /\ global_config.has_charts
    /\ ~IsAdhoc(args)
    /\ idx <= Len(global_config.charts)

\* kubectl.py:78-85: an entry without a name, or filtered out by --chart.
ResolveSkip ==
    /\ InResolveLoop
    /\ ~Selected(global_config.charts[idx], args)
    /\ idx' = idx + 1
    /\ UNCHANGED <<args, global_config, pc, targets, procs, spawned, reports,
                   printed, answer, fatal, exit_status>>
    /\ UNCHANGED <<mergevars, gathervars, auxvars>>

\* kubectl.py:87-89: an entry that carries the key `chartref`.
ResolveRef ==
    /\ InResolveLoop
    /\ Selected(global_config.charts[idx], args)
    /\ global_config.charts[idx].has_chartref
    /\ targets' = Append(targets, global_config.charts[idx])
    /\ idx' = idx + 1
    /\ UNCHANGED <<args, global_config, pc, procs, spawned, reports, printed,
                   answer, fatal, exit_status>>
    /\ UNCHANGED <<mergevars, gathervars, auxvars>>

\* ResolveFetch going on to the next entry when the fetch fails.
ResolveFetch_SkipFailed ==
    /\ InResolveLoop
    /\ Selected(global_config.charts[idx], args)
    /\ ~global_config.charts[idx].has_chartref
    /\ LET chart == global_config.charts[idx]
           fetched == [chart EXCEPT !.has_chartref = TRUE,
                                    !.chartref = FetchPath(chart.name, chart.version)]
       IN /\ spawned' = Append(spawned, Proc("curl", chart.name, chart.version))
          /\ \E rc \in ExitCodes :
                IF rc # 0
                THEN UNCHANGED <<global_config, targets>>
                ELSE /\ global_config' = [global_config EXCEPT !.charts[idx] = fetched]
                     /\ targets' = Append(targets, fetched)
    /\ idx' = idx + 1
    /\ UNCHANGED <<args, pc, fatal, exit_status, procs, reports, printed, answer>>
    /\ UNCHANGED <<mergevars, gathervars, auxvars>>

\* kubectl.py:91-98 with fetch_chart, helm.py:45-66.
ResolveFetch ==
    /\ InResolveLoop
    /\ Selected(global_config.charts[idx], args)
    /\ ~global_config.charts[idx].has_chartref
    /\ LET chart == global_config.charts[idx]
           fetched == [chart EXCEPT !.has_chartref = TRUE,
                                    !.chartref = FetchPath(chart.name, chart.version)]
       IN /\ spawned' = Append(spawned, Proc("curl", chart.name, chart.version))
          /\ \E rc \in ExitCodes :
                IF rc # 0
                THEN /\ Exit(CommandStatus(-1), "fetch_failed")
                     /\ UNCHANGED <<global_config, targets, idx>>
                ELSE /\ global_config' = [global_config EXCEPT !.charts[idx] = fetched]
                     /\ targets' = Append(targets, fetched)
                     /\ idx' = idx + 1
                     /\ UNCHANGED <<pc, fatal, exit_status>>
    /\ UNCHANGED <<args, procs, reports, printed, answer>>
    /\ UNCHANGED <<mergevars, gathervars, auxvars>>

\* kubectl.py:100-104: the loop is over.
ResolveEnd ==
    /\ pc = "kubectl_action"
    /\ global_config.has_charts
    /\ ~IsAdhoc(args)
    /\ idx > Len(global_config.charts)
    /\ IF Given(args.chart) /\ Len(targets) = 0
       THEN Exit(CommandStatus(-1), "no_target")
       ELSE pc' = "confirm" /\ UNCHANGED <<fatal, exit_status>>
    /\ UNCHANGED <<args, global_config, idx, targets, procs, spawned, reports,
                   printed, answer>>
    /\ UNCHANGED <<mergevars, gathervars, auxvars>>

\* Affirmative accepting any answer that starts with a `y`.
Affirmative_Prefix(ok) == ok \in {"y", "Y", "yes"}

\* kubectl.py:113: the answers that let the run go on.
Affirmative(ok) == ok = "y" \/ ok = "Y"

\* kubectl_action_targets, kubectl.py:110-115, without --yes: the target names
\* are printed (KeyError on a target without `name`), then the prompt.
Confirm ==
    /\ pc = "confirm"
    /\ ~args.yes
    /\ IF \E i \in 1..Len(targets) : ~targets[i].has_name
       THEN Exit(1, "crash") /\ UNCHANGED <<answer, idx>>
       ELSE \E ok \in Answers :
              /\ answer' = ok
              /\ IF Affirmative(ok)
                 THEN pc' = "spawn" /\ idx' = 1 /\ UNCHANGED <<fatal, exit_status>>
                 ELSE Exit(1, "declined") /\ UNCHANGED idx
    /\ UNCHANGED <<args, global_config, targets, procs, spawned, reports, printed>>
    /\ UNCHANGED <<mergevars, gathervars, auxvars>>

\* kubectl.py:110: --yes, no prompt.
SkipConfirm ==
    /\ pc = "confirm"
    /\ args.yes
    /\ pc' = "spawn"
    /\ idx' = 1
    /\ UNCHANGED <<args, global_config, targets, procs, spawned, reports,
                   printed, answer, fatal, exit_status>>
    /\ UNCHANGED <<mergevars, gathervars, auxvars>>

\* chartref.endswith('.tgz'), helm.py:128, 171.
EndsWithTgz(chartref) == chartref \in {"charts/b-1.tgz", "charts/b-2.tgz", "charts/other.tgz"}

\* kubectl.py:127-129: the entry of procs for a pipeline spawned when n
\* processes were spawned before it.  hproc and kproc are the positions of its
\* two processes in spawned; kstdin is the process whose stdout pipe kproc
\* reads (stdin=hproc.stdout); hrc and krc are the return codes.
Pipeline(name, n) ==
    [name |-> name, hproc |-> n + 1, kproc |-> n + 2, kstdin |-> n + 1,
     hrc |-> RcNone, krc |-> RcNone]

\* kubectl.py:118-129: one iteration of the loop over the targets.  The two
\* argument vectors are built first (helm_template_command, helm.py:216-226):
\* chart['name'] raises KeyError on a target without a name (helm.py:94), and
\* tarfile.open raises on an archive it cannot read (helm.py:130, 173).
SpawnStep ==
    /\ pc = "spawn"
    /\ idx <= Len(targets)
    /\ LET chart == targets[idx]
       IN \E tar_ok \in (IF EndsWithTgz(chart.chartref) THEN BOOLEAN ELSE {TRUE}) :
            IF ~chart.has_name \/ ~tar_ok
            THEN Exit(1, "crash") /\ UNCHANGED <<idx, procs, spawned, printed>>
            ELSE /\ idx' = idx + 1
                 /\ UNCHANGED <<pc, fatal, exit_status>>
                 /\ IF args.explain
                    THEN /\ printed' = Append(printed, chart.chartref)
                         /\ UNCHANGED <<procs, spawned>>
                    ELSE /\ spawned' = spawned \o << Proc("helm", chart.chartref, NoValue),
                                                     Proc("kubectl", chart.chartref, NoValue) >>
                         /\ procs' = Append(procs, Pipeline(chart.chartref, Len(spawned)))
                         /\ UNCHANGED printed
    /\ UNCHANGED <<args, global_config, targets, reports, answer>>
    /\ UNCHANGED <<mergevars, gathervars, auxvars>>

\* kubectl.py:131: every target has been handled, "Waiting for processes...".
SpawnDone ==
    /\ pc = "spawn"
    /\ idx > Len(targets)
    /\ pc' = "report"
    /\ idx' = 1
    /\ UNCHANGED <<args, global_config, targets, procs, spawned, reports,
                   printed, answer, fatal, exit_status>>
    /\ UNCHANGED <<mergevars, gathervars, auxvars>>

Report(i, stage, ok) == [target |-> i, stage |-> stage, ok |-> ok]

\* WaitKubectl with the failure reported but the run carrying on.
WaitKubectl_NoExit ==
    /\ pc = "report"
    /\ idx <= Len(procs)
    /\ procs[idx].krc = RcNone
    /\ \E rc \in ExitCodes :
          /\ procs' = [procs EXCEPT ![idx].krc = rc]
          /\ reports' = Append(reports, Report(idx, "kubectl", rc = 0))
    /\ UNCHANGED <<args, global_config, pc, idx, targets, spawned, printed,
                   answer, fatal, exit_status>>
    /\ UNCHANGED <<mergevars, gathervars, auxvars>>

\* kubectl.py:134-148: wait for the action stage of pipeline idx.
WaitKubectl ==
    /\ pc = "report"
    /\ idx <= Len(procs)
    /\ procs[idx].krc = RcNone
    /\ \E rc \in ExitCodes :
          /\ procs' = [procs EXCEPT ![idx].krc = rc]
          /\ reports' = Append(reports, Report(idx, "kubectl", rc = 0))
          /\ IF rc = 0
             THEN UNCHANGED <<pc, fatal, exit_status>>
             ELSE Exit(1, "pipeline_failed")
    /\ UNCHANGED <<args, global_config, idx, targets, spawned, printed, answer>>
    /\ UNCHANGED <<mergevars, gathervars, auxvars>>

\* WaitHelm with a failed template stage not ending the run.
WaitHelm_IgnoreFailure ==
    /\ pc = "report"
    /\ idx <= Len(procs)
    /\ procs[idx].krc # RcNone
    /\ \E rc \in ExitCodes :
          /\ procs' = [procs EXCEPT ![idx].hrc = rc]
          /\ reports' = Append(reports, Report(idx, "helm", rc = 0))
    /\ idx' = idx + 1
    /\ UNCHANGED <<args, global_config, pc, targets, spawned, printed, answer,
                   fatal, exit_status>>
    /\ UNCHANGED <<mergevars, gathervars, auxvars>>

\* WaitHelm with the template stage awaited before the action stage.
WaitHelm_BeforeKubectl ==
    /\ pc = "report"
    /\ idx <= Len(procs)
    /\ procs[idx].hrc = RcNone
    /\ \E rc \in ExitCodes :
          /\ procs' = [procs EXCEPT ![idx].hrc = rc]
          /\ reports' = Append(reports, Report(idx, "helm", rc = 0))
          /\ IF rc = 0
             THEN UNCHANGED <<pc, fatal, exit_status>>
             ELSE Exit(1, "pipeline_failed")
    /\ UNCHANGED <<args, global_config, idx, targets, spawned, printed, answer>>
    /\ UNCHANGED <<mergevars, gathervars, auxvars>>

\* kubectl.py:149-156: wait for the template stage of pipeline idx.
WaitHelm ==
    /\ pc = "report"
    /\ idx <= Len(procs)
    /\ procs[idx].krc # RcNone
    /\ \E rc \in ExitCodes :
          /\ procs' = [procs EXCEPT ![idx].hrc = rc]
          /\ reports' = Append(reports, Report(idx, "helm", rc = 0))
          /\ IF rc = 0
             THEN idx' = idx + 1 /\ UNCHANGED <<pc, fatal, exit_status>>
             ELSE Exit(1, "pipeline_failed") /\ UNCHANGED idx
    /\ UNCHANGED <<args, global_config, targets, spawned, printed, answer>>
    /\ UNCHANGED <<mergevars, gathervars, auxvars>>

\* kubectl_action_targets falls off its end; the command returns (cli.py:107, 115).
ReportDone ==
    /\ pc = "report"
    /\ idx > Len(procs)
    /\ Exit(CommandStatus(0), NoValue)
    /\ UNCHANGED <<args, global_config, idx, targets, procs, spawned, reports,
                   printed, answer>>
    /\ UNCHANGED <<mergevars, gathervars, auxvars>>

\* cli.py:348-356: KeyboardInterrupt anywhere inside the command.
Interrupt ==
    /\ pc \in {"bootstrap", "kubectl_action", "confirm", "spawn", "report"}
    /\ Exit(1, "interrupt")
    /\ UNCHANGED <<args, global_config, idx, targets, procs, spawned, reports,
                   printed, answer>>
    /\ UNCHANGED <<mergevars, gathervars, auxvars>>

Init == InitRun /\ IdleMerge /\ IdleGather /\ IdleAux

Next ==
    \/ Validate
    \/ RunScript
    \/ BootstrapDone
    \/ NoCharts
    \/ InspectChart
    \/ ResolveSkip
    \/ ResolveRef
    \/ ResolveFetch
    \/ ResolveEnd
    \/ Confirm
    \/ SkipConfirm
    \/ SpawnStep
    \/ SpawnDone
    \/ WaitKubectl
    \/ WaitHelm
    \/ ReportDone
    \/ Interrupt

Spec == Init /\ [][Next]_vars

\* ============================================================ the claims ==
IsOdd(j) == j % 2 = 1

\* The report lines of n pipelines whose two stages both exited 0.
SuccessPrefix(n) ==
    [j \in 1..(2 * n) |-> Report((j + 1) \div 2, IF IsOdd(j) THEN "kubectl" ELSE "helm", TRUE)]

\* C1: pipelines are reported in spawn order (action stage, then template
\* stage, target by target), and when the action stage of target k is the
\* first stage seen to exit non-zero, the report is: success for both stages
\* of targets 1..k-1, then the failure of k's action stage, and nothing else
\* (nothing for k's template stage, nothing for the targets after k, which
\* are never waited on); the run has ended with status 1.
C1_FailFast ==
    /\ \A i \in 1..Len(procs) : procs[i].name = targets[i].chartref
    /\ \A j \in 1..Len(reports) :
          /\ reports[j].target = (j + 1) \div 2
          /\ reports[j].stage = IF IsOdd(j) THEN "kubectl" ELSE "helm"
    /\ \A k \in 1..Len(procs) :
          procs[k].krc \notin {RcNone, 0} =>
             /\ reports = SuccessPrefix(k - 1) \o <<Report(k, "kubectl", FALSE)>>
             /\ pc = "exit"
             /\ exit_status = 1
             /\ procs[k].hrc = RcNone
             /\ \A j \in (k + 1)..Len(procs) :
                   procs[j].krc = RcNone /\ procs[j].hrc = RcNone

\* Two pipelines, the first reported OK twice, the second's action stage failed.
C1_Witness ==
    /\ Len(procs) = 2
    /\ procs[1].krc = 0 /\ procs[1].hrc = 0
    /\ procs[2].krc = 1
    /\ Len(reports) = 3

\* C2: a run that spawned pipelines ends with status 0 only if every target
\* was spawned and both stages of every pipeline exited 0; a pipeline whose
\* action stage exited 0 and whose template stage exited non-zero has ended
\* the run with status 1.
C2_SuccessNeedsBothStages ==
    /\ (pc = "exit" /\ exit_status = 0 /\ Len(procs) > 0) =>
          /\ Len(procs) = Len(targets)
          /\ \A i \in 1..Len(procs) : procs[i].krc = 0 /\ procs[i].hrc = 0
    /\ \A i \in 1..Len(procs) :
          (procs[i].krc = 0 /\ procs[i].hrc \notin {RcNone, 0}) =>
             pc = "exit" /\ exit_status = 1

\* The action stage of the second pipeline exited 0, its template stage did not.
C2_Witness ==
    /\ Len(procs) = 2
    /\ procs[2].krc = 0
    /\ procs[2].hrc = 1

\* The prompt was answered, and not with `y` or `Y`.
Declined == answer # NoValue /\ answer # "y" /\ answer # "Y"

\* C3 as stated: a declined prompt ends the run with status 1 and no process
\* at all was spawned during the invocation.
C3_DeclineSpawnsNothing ==
    Declined => exit_status = 1 /\ spawned = <<>>

\* C3, amended: a declined prompt ends the run with status 1 and no template
\* or action process is ever spawned (and no pipeline line printed); bootstrap
\* scripts and chart fetches run before the prompt.
C3_DeclineSpawnsNoPipeline ==
    Declined =>
       /\ pc = "exit"
       /\ exit_status = 1
       /\ procs = <<>>
       /\ printed = <<>>
       /\ \A j \in 1..Len(spawned) : spawned[j].kind \notin {"helm", "kubectl"}

\* The prompt was declined after a script and a fetch had been spawned.
C3_Witness ==
    /\ answer = "yes"
    /\ pc = "exit"
    /\ \E j \in 1..Len(spawned) : spawned[j].kind = "script"
    /\ \E j \in 1..Len(spawned) : spawned[j].kind = "curl"

\* The fatal errors C4 lists.
FatalErrors == {"missing_config", "no_target", "fetch_failed", "pipeline_failed",
                "declined", "interrupt"}

\* C4: the invocation exits with 0 on success and with 1 on every fatal error
\* (missing required config, unresolved target, failed fetch, pipeline-stage
\* failure, declined confirmation, interrupt).
C4_FatalExitsOne ==
    pc = "exit" =>
       /\ fatal \in FatalErrors => exit_status = 1
       /\ fatal = NoValue => exit_status = 0

\* C5, one step of target resolution over the declared list: a selected entry
\* with `chartref` spawns no fetch and becomes a target as it is; a selected
\* entry without one spawns exactly one fetch, with its name and version, and
\* either becomes a target with the fetched path as chartref or, the fetch
\* having failed, ends resolution with no target list handed on.
C5_ResolveStep ==
    (InResolveLoop /\ (idx' # idx \/ pc' # pc) /\ fatal' # "interrupt") =>
       LET chart == global_config.charts[idx]
           selected == chart.has_name /\ (args.chart = NoValue \/ chart.name = args.chart)
       IN IF selected /\ chart.has_chartref
          THEN spawned' = spawned /\ targets' = Append(targets, chart)
          ELSE IF selected
          THEN /\ spawned' = Append(spawned, Proc("curl", chart.name, chart.version))
               /\ \/ fatal' = "fetch_failed" /\ pc' = "exit" /\ targets' = targets
                  \/ /\ fatal' = NoValue /\ pc' = pc
                     /\ Len(targets') = Len(targets) + 1
                     /\ targets'[Len(targets')].name = chart.name
                     /\ targets'[Len(targets')].chartref = FetchPath(chart.name, chart.version)
          ELSE spawned' = spawned /\ targets' = targets

\* C5, after a failed fetch: no template or action process, for any target.
C5_NoPipelineAfterFailedFetch ==
    fatal = "fetch_failed" =>
       /\ pc = "exit"
       /\ procs = <<>>
       /\ printed = <<>>
       /\ \A j \in 1..Len(spawned) : spawned[j].kind \notin {"helm", "kubectl"}

\* C5: target resolution fetches exactly the selected entries that carry no
\* chartref, once each, and a failed fetch aborts the run before any pipeline.
C5_TargetResolution ==
    [][C5_ResolveStep]_vars /\ []C5_NoPipelineAfterFailedFetch

\* A fetch failed after an earlier entry had been resolved to a target.
C5_Witness ==
    /\ fatal = "fetch_failed"
    /\ Len(targets) = 1
    /\ \E j \in 1..Len(spawned) : spawned[j].kind = "curl"

\* The target list is in the hands of kubectl_action_targets.
HandedToEngine == pc \in {"confirm", "spawn", "report"}

\* C6: every chart of a target list handed to the execution engine has a
\* present, non-empty chartref.
C6_TargetsHaveChartref ==
    HandedToEngine =>
       \A i \in 1..Len(targets) :
          targets[i].has_chartref /\ targets[i].chartref \notin {NoValue, ""}

\* A required key resolves to a non-empty value from the configuration or
\* from its command-line override.
Resolves(configured, override) ==
    (override # NoValue /\ override # "") \/ (configured # NoValue /\ configured # "")

AllRequiredResolve ==
    /\ Resolves(global_config.kube_context, args.kube_context)
    /\ Resolves(global_config.environment, NoValue)
    /\ Resolves(global_config.profile, NoValue)
    /\ Resolves(global_config.helm_registry_url, args.helm_registry_url)

\* C7: the run proceeds past validation iff each of kube_context, environment,
\* profile and helm_registry_url resolves to a non-empty value from the
\* configuration or from its command-line override; otherwise it ends with
\* status 1 before any process is spawned.
C7_ValidationWithOverrides ==
    (pc # "run" /\ ~global_config.has_dependencies) =>
       /\ AllRequiredResolve <=> fatal # "missing_config"
       /\ fatal = "missing_config" => pc = "exit" /\ exit_status = 1 /\ spawned = <<>>

\* ==================================================== the command builder ==
\* Values of the chart and configuration dicts the builder flattens: strings,
\* booleans and nested dicts (s holds str(x) of a leaf).
Str(s) == [t |-> "str", s |-> s, m |-> <<>>]
Bool(b) == [t |-> "bool", s |-> IF b THEN "True" ELSE "False", m |-> <<>>]
Dict(m) == [t |-> "dict", s |-> "", m |-> m]

\* The order x.items() gives the keys of a dict in (utils.py:70): one fixed
\* order per key set, not the order the keys were written in.
KeyOrder == << "global", "ingress", "tls", "prod", "dev", "small", "large", "max-size",
               "debug", "a", "host", "enabled", "password", "replicas", "cpu" >>

Items(m) == SelectSeq(KeyOrder, LAMBDA k : k \in DOMAIN m)

\* k.replace('-', '_'), utils.py:70.
Replace(k) == IF k = "max-size" THEN "max_size" ELSE k

\* '.'.join(path), utils.py:74.
RECURSIVE Join(_)
Join(path) ==
    IF Len(path) = 0 THEN ""
    ELSE IF Len(path) = 1 THEN path[1]
    ELSE path[1] \o "." \o Join(Tail(path))

\* flatten, utils.py:51-52.
RECURSIVE flatten(_)
flatten(l) == IF Len(l) = 0 THEN <<>> ELSE Head(l) \o flatten(Tail(l))

\* collapse, utils.py:68-74: a dict becomes its leaves as 'a.b=value', a
\* boolean leaf is lower-cased.
RECURSIVE collapse(_, _)
collapse(x, path) ==
    IF x.t = "dict"
    THEN flatten([i \in 1..Len(Items(x.m)) |->
                    collapse(x.m[Items(x.m)[i]],
                             Append(path, Replace(Items(x.m)[i])))])
    ELSE LET value == IF x.t = "bool"
                      THEN (IF x.s = "True" THEN "true" ELSE "false")
                      ELSE x.s
         IN <<Join(path) \o "=" \o value>>

\* The builder's working state: the argument vector so far, the temporary
\* files written so far, and whether an exception was raised.
Building(argv, tmp) == [argv |-> argv, tmp |-> tmp, raised |-> FALSE]
Raise(b) == [b EXCEPT !.raised = TRUE]
\* The next call of helm_template_command runs unless one before it raised.
AndThen(b, next) == IF b.raised THEN b ELSE next

\* tempfile.NamedTemporaryFile(delete=False).name of the n-th file.
TmpName(n) == "/tmp/tmp" \o ToString(n)

\* helm.py:112-114, 124-126: yaml.dump(content, tmp); helm += ['-f', tmp.name].
AppendFile(b, content) ==
    [b EXCEPT !.tmp = Append(@, content),
              !.argv = @ \o <<"-f", TmpName(Len(b.tmp) + 1)>>]

\* helm_append_kv, helm.py:88-91.
RECURSIVE SetFlags(_)
SetFlags(items) ==
    IF Len(items) = 0 THEN <<>> ELSE <<"--set", Head(items)>> \o SetFlags(Tail(items))

helm_append_kv(b, kv) == [b EXCEPT !.argv = @ \o SetFlags(collapse(kv, <<>>))]

\* helm_append_base, helm.py:101-105.
helm_append_base(b, gc) ==
    [b EXCEPT !.argv = @ \o <<"--kube-context", gc.kube_context>>
                         \o (IF gc.has_namespace THEN <<"--namespace", gc.namespace>>
                                                 ELSE <<>>)]

\* helm_append_context, helm.py:196-202.
helm_append_context(b, gc) ==
    IF gc.has_global
    THEN [b EXCEPT !.argv = @ \o SetFlags(collapse(Dict([global |-> gc.global]), <<>>))]
    ELSE b

\* get_ingress_host_by_chart_name, helm.py:35-43; NoValue stands for None.
get_ingress_host_by_chart_name(gc, name) ==
    IF gc.has_global /\ "ingress" \in DOMAIN gc.global.m
       /\ name \in DOMAIN gc.global.m["ingress"].m
    THEN LET o == gc.global.m["ingress"].m[name]
         IN IF o.t = "str" THEN o.s ELSE o.m["host"].s
    ELSE NoValue

\* helm_append_ingress, helm.py:93-99: chart['name'] raises KeyError on a
\* chart without a name; `if ingress_host:` drops None and the empty string.
helm_append_ingress(b, chart, gc) ==
    IF ~chart.has_name
    THEN Raise(b)
    ELSE LET ingress_host == get_ingress_host_by_chart_name(gc, chart.name)
             ingress_variable == IF chart.has_ingress_variable
                                 THEN chart.ingress_variable
                                 ELSE "ingress.host"
         IN IF ingress_host \notin {NoValue, ""}
            THEN [b EXCEPT !.argv = @ \o <<"--set", ingress_variable \o "=" \o ingress_host>>]
            ELSE b

\* helm_append_secrets, helm.py:148-156.
helm_append_secrets(b, chart, gc) ==
    IF gc.environment \in DOMAIN chart.secrets.m
    THEN helm_append_kv(b, chart.secrets.m[gc.environment])
    ELSE b

\* helm.py:127-146 and 170-189: the file of that name inside the chart archive,
\* when chartref is an archive; tarfile.open raises on one it cannot read.
AppendFromArchive(b, chart, tar, has_file, content, selector) ==
    IF ~EndsWithTgz(chart.chartref)
    THEN b
    ELSE IF ~tar.readable
    THEN Raise(b)
    ELSE IF has_file /\ selector \in DOMAIN content.m
    THEN AppendFile(b, content.m[selector])
    ELSE b

\* helm_append_values, helm.py:107-146: the chart's default_values as --set
\* flags, the chart's inline values of the environment as a file, then
\* ankh-values.yaml of the archive.  Nothing under the working directory is
\* looked at.
helm_append_values(b, chart, gc, tar) ==
    LET b1 == IF DOMAIN chart.default_values.m # {}
              THEN helm_append_kv(b, chart.default_values)
              ELSE b
        b2 == IF gc.environment \in DOMAIN chart.values.m
              THEN AppendFile(b1, chart.values.m[gc.environment])
              ELSE b1
    IN AppendFromArchive(b2, chart, tar, tar.has_values, tar.values, gc.environment)

\* helm_append_profile, helm.py:158-189.
helm_append_profile(b, chart, gc, tar) ==
    LET b1 == IF gc.profile \in DOMAIN chart.resource_profiles.m
              THEN AppendFile(b, chart.resource_profiles.m[gc.profile])
              ELSE b
    IN AppendFromArchive(b1, chart, tar, tar.has_profiles, tar.profiles, gc.profile)

\* helm_append_release, helm.py:209-214; NoValue stands for no 'release' key.
helm_append_release(b, gc) ==
    IF gc.release \notin {NoValue, ""}
    THEN [b EXCEPT !.argv = @ \o <<"--name", gc.release>>]
    ELSE b

\* helm_append_chartref, helm.py:204-207.
helm_append_chartref(b, chart) == [b EXCEPT !.argv = Append(@, chart.chartref)]

\* helm_template_command with the ingress flag put before the global-context
\* flags.
helm_template_command_IngressFirst(chart, gc, tar, tmp) ==
    LET b0 == Building(<<"helm", "template">>, tmp)
        b1 == helm_append_base(b0, gc)
        b2 == AndThen(b1, helm_append_ingress(b1, chart, gc))
        b3 == AndThen(b2, helm_append_context(b2, gc))
        b4 == AndThen(b3, helm_append_secrets(b3, chart, gc))
        b5 == AndThen(b4, helm_append_values(b4, chart, gc, tar))
        b6 == AndThen(b5, helm_append_profile(b5, chart, gc, tar))
        b7 == AndThen(b6, helm_append_release(b6, gc))
    IN AndThen(b7, helm_append_chartref(b7, chart))

\* helm_template_command, helm.py:216-226.
helm_template_command(chart, gc, tar, tmp) ==
    LET b0 == Building(<<"helm", "template">>, tmp)
        b1 == helm_append_base(b0, gc)
        b2 == AndThen(b1, helm_append_context(b1, gc))
        b3 == AndThen(b2, helm_append_ingress(b2, chart, gc))
        b4 == AndThen(b3, helm_append_secrets(b3, chart, gc))
        b5 == AndThen(b4, helm_append_values(b4, chart, gc, tar))
        b6 == AndThen(b5, helm_append_profile(b5, chart, gc, tar))
        b7 == AndThen(b6, helm_append_release(b6, gc))
    IN AndThen(b7, helm_append_chartref(b7, chart))

\* kubectl_action_command, kubectl.py:51-57, with kubectl_append_kubeconfig
\* (46-49), kubectl_append_base (29-35), kubectl_append_extra_args (37-40;
\* the commands pass None) and kubectl_append_path (42-44).
kubectl_action_command(action, gc, a) ==
    <<"kubectl", action>>
    \o (IF a.kubeconfig # NoValue THEN <<"--kubeconfig", a.kubeconfig>> ELSE <<>>)
    \o <<"--context", gc.kube_context>>
    \o (IF gc.has_namespace THEN <<"--namespace", gc.namespace>> ELSE <<>>)
    \o (IF a.dry_run THEN <<"--dry-run">> ELSE <<>>)
    \o <<"-f", "-">>

\* The `global` section of the configuration: absent, empty, shared keys, and
\* an ingress host registered for chart a as a string, as a mapping with a
\* host key, and as an empty string.
BuildGlobals ==
    { <<FALSE, Dict(<<>>)>>,
      <<TRUE, Dict(<<>>)>>,
      <<TRUE, Dict(("max-size" :> Str("1")) @@ ("debug" :> Bool(TRUE)))>>,
      <<TRUE, Dict("ingress" :> Dict("a" :> Str("h")))>>,
      <<TRUE, Dict(("ingress" :> Dict("a" :> Dict("host" :> Str("h"))))
                   @@ ("debug" :> Bool(FALSE)))>>,
      <<TRUE, Dict("ingress" :> Dict("a" :> Str("")))>> }

\* namespace and release: absent, present, and a release that is empty.
BuildScopes == { <<FALSE, NoValue>>, <<TRUE, NoValue>>, <<TRUE, "rel">>, <<FALSE, "">> }

BuildConfigs ==
    { [kube_context |-> "kc", has_namespace |-> sc[1], namespace |-> "ns",
       has_global |-> g[1], global |-> g[2],
       environment |-> "prod", profile |-> "small", release |-> sc[2]] :
      g \in BuildGlobals, sc \in BuildScopes }

BuildChart(has_name, name, chartref, has_iv, dv, values, secrets, profiles) ==
    [has_name |-> has_name, name |-> name, chartref |-> chartref,
     has_ingress_variable |-> has_iv, ingress_variable |-> "iv",
     default_values |-> dv, values |-> values, secrets |-> secrets,
     resource_profiles |-> profiles]

InlineDefaults == { Dict(<<>>), Dict("replicas" :> Str("1")) }
InlineValues == { Dict(<<>>), Dict("prod" :> Dict("replicas" :> Str("2"))),
                  Dict("dev" :> Dict("replicas" :> Str("2"))) }
InlineSecrets == { Dict(<<>>),
                   Dict("prod" :> Dict(("password" :> Str("s3"))
                                       @@ ("tls" :> Dict("enabled" :> Bool(TRUE))))) }
InlineProfiles == { Dict(<<>>), Dict("small" :> Dict("cpu" :> Str("1"))) }

\* Chart a with and without an ingress_variable, chart b (for which no
\* ingress host is ever registered) without.
BuildNames == { <<"a", FALSE>>, <<"a", TRUE>>, <<"b", FALSE>> }

BuildCharts ==
    { BuildChart(TRUE, n[1], chartref, n[2], dv, values, secrets, profiles) :
        n \in BuildNames, chartref \in {"./c", "charts/b-1.tgz"},
        dv \in InlineDefaults, values \in InlineValues,
        secrets \in InlineSecrets, profiles \in InlineProfiles }
    \cup { BuildChart(FALSE, NoValue, "./c", FALSE, Dict(<<>>), Dict(<<>>),
                      Dict(<<>>), Dict(<<>>)) }

\* args as the builder reads it: the action of the command (cli.py:99, 111),
\* --kubeconfig and --dry-run.
BuildArgs ==
    { [action |-> "apply", kubeconfig |-> NoValue, dry_run |-> FALSE],
      [action |-> "apply", kubeconfig |-> "kcfg", dry_run |-> TRUE],
      [action |-> "template", kubeconfig |-> NoValue, dry_run |-> FALSE] }

Archive(readable, has_values, has_profiles) ==
    [readable |-> readable,
     has_values |-> has_values, values |-> Dict("prod" :> Dict("replicas" :> Str("3"))),
     has_profiles |-> has_profiles, profiles |-> Dict("small" :> Dict("cpu" :> Str("2")))]

\* What tarfile.open(chartref) finds; a directory chartref is never opened.
ArchivesOf(chartref) ==
    IF EndsWithTgz(chartref)
    THEN { Archive(FALSE, FALSE, FALSE) }
         \cup { Archive(TRUE, v, p) : v \in BOOLEAN, p \in BOOLEAN }
    ELSE { Archive(FALSE, FALSE, FALSE) }

\* The conventional values files of a chart under the working directory.
EnvValuesFile(chart, gc) == "values/" \o gc.environment \o "/" \o chart.name \o ".yaml"
BaseValuesFile(chart) == "values/" \o chart.name \o ".yaml"
ValuesFiles(chart, gc) ==
    IF chart.has_name THEN {EnvValuesFile(chart, gc), BaseValuesFile(chart)} ELSE {}

InitBuild ==
    /\ hchart \in BuildCharts
    /\ hconfig \in BuildConfigs
    /\ hargs \in BuildArgs
    /\ archive = NoValue /\ cwd_files = {} /\ tmpfiles = <<>>
    /\ helm = <<>> /\ kubectl = <<>> /\ hpc = "start"
    /\ IdleRun /\ IdleMerge /\ IdleGather /\ IdleContext /\ IdlePipes

\* kubectl_chart_action_commands, kubectl.py:60-66, on the files it finds.
kubectl_chart_action_commands ==
    /\ hpc = "start"
    /\ \E tar \in ArchivesOf(hchart.chartref) :
         LET b == helm_template_command(hchart, hconfig, tar, tmpfiles)
         IN /\ archive' = tar
            /\ cwd_files' \in SUBSET ValuesFiles(hchart, hconfig)
            /\ tmpfiles' = b.tmp
            /\ IF b.raised
               THEN hpc' = "raised" /\ helm' = <<>> /\ kubectl' = <<>>
               ELSE /\ hpc' = "built"
                    /\ helm' = b.argv
                    /\ kubectl' = IF hargs.action = "template"
                                  THEN <<"cat">>
                                  ELSE kubectl_action_command(hargs.action, hconfig, hargs)
    /\ UNCHANGED <<hchart, hconfig, hargs>>
    /\ UNCHANGED <<runvars, mergevars, gathervars, ctxvars, pipevars>>

NextBuild == kubectl_chart_action_commands

SpecBuild == InitBuild /\ [][NextBuild]_vars

\* ---------------------------------------------------- claims on the builder
\* The --set items each layer can give on the inputs above, and the layer a
\* temporary file belongs to by what was written into it.
GlobalItems == { "global.max_size=1", "global.debug=true", "global.debug=false",
                 "global.ingress.a=h", "global.ingress.a.host=h", "global.ingress.a=" }
IngressItems == { "ingress.host=h", "iv=h" }
SecretItems == { "password=s3", "tls.enabled=true" }
DefaultItems == { "replicas=1" }
FileHas(f, key) ==
    \E n \in 1..Len(tmpfiles) : f = TmpName(n) /\ key \in DOMAIN tmpfiles[n].m

\* The layer an option with its argument belongs to: 1 cluster context,
\* 2 namespace, 3 global context, 4 ingress, 5 secrets, 6 values, 7 resource
\* profile, 8 release name; 0 when it belongs to none.
LayerOfFlag(opt, arg) ==
    IF opt = "--kube-context" THEN 1
    ELSE IF opt = "--namespace" THEN 2
    ELSE IF opt = "--name" THEN 8
    ELSE IF opt = "--set"
    THEN (IF arg \in GlobalItems THEN 3
          ELSE IF arg \in IngressItems THEN 4
          ELSE IF arg \in SecretItems THEN 5
          ELSE IF arg \in DefaultItems THEN 6
          ELSE 0)
    ELSE IF opt = "-f"
    THEN (IF FileHas(arg, "replicas") THEN 6
          ELSE IF FileHas(arg, "cpu") THEN 7
          ELSE 0)
    ELSE 0

HelmOptions == { "--kube-context", "--namespace", "--name", "--set", "-f" }

\* The layer of position i of the template argv, between `helm template` and
\* the chart reference.
Layer(i) ==
    IF helm[i] \in HelmOptions
    THEN LayerOfFlag(helm[i], helm[i + 1])
    ELSE LayerOfFlag(helm[i - 1], helm[i])

Flags == 3..(Len(helm) - 1)
HasLayer(n) == \E i \in Flags : Layer(i) = n

HostRegistered ==
    get_ingress_host_by_chart_name(hconfig, hchart.name) \notin {NoValue, ""}

FromArchive(has_file) ==
    EndsWithTgz(hchart.chartref) /\ archive.readable /\ has_file

\* C11: the template argv is `helm template`, the cluster-context flag, the
\* optional namespace flag, the global-context --set flags, the ingress --set
\* flag (present iff a host is registered for the chart's name), the secrets
\* layer, the values layer, the resource-profile layer, the optional
\* release-name flag, and the chart reference last: the layers never go back,
\* and each is present exactly when its source is.
C11_TemplateArgvOrder ==
    hpc = "built" =>
        LET present == {Layer(i) : i \in Flags}
        IN /\ Len(helm) >= 5
           /\ helm[1] = "helm" /\ helm[2] = "template"
           /\ helm[3] = "--kube-context" /\ helm[4] = hconfig.kube_context
           /\ helm[Len(helm)] = hchart.chartref
           /\ present \subseteq 1..8
           /\ \A i \in Flags : i + 1 \in Flags => Layer(i) <= Layer(i + 1)
           /\ 2 \in present <=> hconfig.has_namespace
           /\ 3 \in present <=> (hconfig.has_global /\ DOMAIN hconfig.global.m # {})
           /\ 4 \in present <=> HostRegistered
           /\ 5 \in present <=> hconfig.environment \in DOMAIN hchart.secrets.m
           /\ 6 \in present <=> \/ DOMAIN hchart.default_values.m # {}
                                \/ hconfig.environment \in DOMAIN hchart.values.m
                                \/ FromArchive(archive.has_values)
           /\ 7 \in present <=> \/ hconfig.profile \in DOMAIN hchart.resource_profiles.m
                                \/ FromArchive(archive.has_profiles)
           /\ 8 \in present <=> hconfig.release \notin {NoValue, ""}

\* A command built with every layer present, the ingress flag between the
\* global-context flags and the secrets.
C11_Witness ==
    /\ hpc = "built"
    /\ \A n \in 1..8 : HasLayer(n)
    /\ \E i \in Flags : Layer(i) = 4 /\ Layer(i - 1) = 3 /\ Layer(i + 2) = 5

HasFile(f) == \E i \in 1..(Len(helm) - 1) : helm[i] = "-f" /\ helm[i + 1] = f

\* C12: for a chart X and environment prod the template argv carries
\* -f values/prod/X.yaml when that file exists (and not values/X.yaml),
\* -f values/X.yaml when only that one exists, and neither when neither exists.
C12_ValuesFileSelection ==
    (hpc = "built" /\ hconfig.environment = "prod") =>
        LET env_file == EnvValuesFile(hchart, hconfig)
            base_file == BaseValuesFile(hchart)
        IN /\ env_file \in cwd_files => (HasFile(env_file) /\ ~HasFile(base_file))
           /\ (env_file \notin cwd_files /\ base_file \in cwd_files) => HasFile(base_file)
           /\ (env_file \notin cwd_files /\ base_file \notin cwd_files) =>
                  (~HasFile(env_file) /\ ~HasFile(base_file))

\* ------------------------------------------------ claims on the run, again
\* C13: in explain mode no process is spawned during the run (no fetch,
\* script, template or action process), and a run that comes to its end has
\* printed exactly one pipeline line per target, in target order.
C13_ExplainSpawnsNothing ==
    args.explain =>
        /\ spawned = <<>>
        /\ (pc = "exit" /\ fatal = NoValue) =>
               printed = [i \in 1..Len(targets) |-> targets[i].chartref]

PipelineKinds == {"helm", "kubectl"}
PipelineSpawned == \E i \in 1..Len(spawned) : spawned[i].kind \in PipelineKinds
Waited(i) == procs[i].krc # RcNone \/ procs[i].hrc # RcNone

\* C15: in a run without explain, no process of the engine is waited for
\* before every target's template and action process is spawned, each action
\* process reading the stdout of its own target's template process and of no
\* other; pipelines are then awaited in spawn order, and in each the action
\* stage is awaited before the template stage.
C15_SpawnAllThenWaitInOrder ==
    ~args.explain =>
        /\ \A i \in 1..Len(procs) :
             /\ Waited(i) => (Len(procs) = Len(targets) /\ pc \in {"report", "exit"})
             /\ procs[i].hrc # RcNone => procs[i].krc # RcNone
             /\ spawned[procs[i].hproc] = Proc("helm", targets[i].chartref, NoValue)
             /\ spawned[procs[i].kproc] = Proc("kubectl", targets[i].chartref, NoValue)
             /\ procs[i].kstdin = procs[i].hproc
        /\ \A i, j \in 1..Len(procs) :
             i < j => /\ procs[i].kproc < procs[j].hproc
                      /\ procs[i].kstdin # procs[j].kstdin
                      /\ Waited(j) => procs[i].hrc # RcNone

\* Two pipelines spawned, the first awaited to its end and the second's action
\* stage awaited.
C15_Witness ==
    /\ ~args.explain
    /\ Len(procs) = 2
    /\ procs[1].hrc # RcNone
    /\ procs[2].krc # RcNone
    /\ procs[2].hrc = RcNone

\* C16: the run goes through COLLECTING, CONFIRM, EXECUTING, REPORTING to its
\* end, and both argument vectors of every target are built in COLLECTING:
\* no pipeline process exists before EXECUTING, and a run that ends on a
\* failure to build a target's vectors has spawned no pipeline process.
C16_VectorsBuiltBeforeSpawn ==
    /\ pc \in {"run", "bootstrap", "kubectl_action", "confirm"} => ~PipelineSpawned
    /\ (pc = "exit" /\ fatal = "crash") => ~PipelineSpawned

\* ========================================================== use-context ==
MaxSwitches == 3

\* The user's context file as YAML text: a mapping document is the sequence
\* of its top-level entries in the order they are written; a file that does
\* not exist is the one-entry sequence MissingFile.
Entry(key, current, contexts) == [key |-> key, current |-> current, contexts |-> contexts]
CurrentEntry(name) == Entry("current-context", name, <<>>)
ContextsEntry(contexts) == Entry("contexts", NoValue, contexts)
MissingFile == <<Entry("<missing>", NoValue, <<>>)>>

\* The context names a switch can be asked for; c is declared nowhere.
ContextArgs == {"a", "b", "c"}
\* The `contexts` mappings a file can declare: name -> fragment.
ContextMaps == PartialFns({"a", "b"}, {"f1", "f2"})

ContextDocs ==
    { <<>> }
    \cup { <<CurrentEntry(n)>> : n \in ContextArgs }
    \cup { <<ContextsEntry(m)>> : m \in ContextMaps }
    \cup { <<CurrentEntry(n), ContextsEntry(m)>> : n \in ContextArgs, m \in ContextMaps }
    \cup { <<ContextsEntry(m), CurrentEntry(n)>> : n \in ContextArgs, m \in ContextMaps }

\* yaml.safe_load of a mapping document, cli.py:76: the dict of its entries.
safe_load(doc) ==
    LET at(key) == CHOOSE i \in 1..Len(doc) : doc[i].key = key
        has(key) == \E i \in 1..Len(doc) : doc[i].key = key
    IN [has_current |-> has("current-context"),
        current |-> IF has("current-context") THEN doc[at("current-context")].current
                                              ELSE NoValue,
        has_contexts |-> has("contexts"),
        contexts |-> IF has("contexts") THEN doc[at("contexts")].contexts ELSE <<>>]

\* yaml.dump(config, f, default_flow_style=False), cli.py:86: the entries are
\* written in the order of their keys, `contexts` before `current-context`.
dump(config) ==
    (IF config.has_contexts THEN <<ContextsEntry(config.contexts)>> ELSE <<>>)
    \o (IF config.has_current THEN <<CurrentEntry(config.current)>> ELSE <<>>)

\* Every context counts as declared.
Declared_Any(config, new_context) == TRUE

\* cli.py:77, negated: the context is declared under `contexts`.
Declared(config, new_context) ==
    config.has_contexts /\ new_context \in DOMAIN config.contexts

InitContext ==
    /\ ankhfile \in ContextDocs \cup {MissingFile}
    /\ ankhfile0 = ankhfile
    /\ switches = <<>>
    /\ ctx_ret = RcNone
    /\ ctx_error = NoValue
    /\ IdleRun /\ IdleMerge /\ IdleGather /\ IdleBuild /\ IdlePipes

\* use_context_command, cli.py:73-92.  Without the file the `elif log:` of
\* line 88 reads a name that is not defined and raises NameError.
use_context_command ==
    /\ Len(switches) < MaxSwitches
    /\ \E new_context \in ContextArgs :
         /\ switches' = Append(switches, new_context)
         /\ IF ankhfile = MissingFile
            THEN ctx_error' = "NameError" /\ ctx_ret' = RcNone /\ UNCHANGED ankhfile
            ELSE LET config == safe_load(ankhfile)
                 IN /\ ctx_error' = NoValue
                    /\ IF ~Declared(config, new_context)
                       THEN ctx_ret' = 1 /\ UNCHANGED ankhfile
                       ELSE /\ ankhfile' = dump([config EXCEPT !.has_current = TRUE,
                                                               !.current = new_context])
                            /\ ctx_ret' = 0
    /\ UNCHANGED ankhfile0
    /\ UNCHANGED <<runvars, mergevars, gathervars, buildvars, pipevars>>

NextContext == use_context_command

SpecContext == InitContext /\ [][NextContext]_vars

\* The names the file declared before the first switch.
DeclaredAtStart == DOMAIN safe_load(ankhfile0).contexts

\* The current context after the first n switches: the argument of the last
\* of them that named a declared context, else what the file said at first.
RECURSIVE CurrentAfter(_)
CurrentAfter(n) ==
    IF n = 0
    THEN [has |-> safe_load(ankhfile0).has_current, name |-> safe_load(ankhfile0).current]
    ELSE IF switches[n] \in DeclaredAtStart
    THEN [has |-> TRUE, name |-> switches[n]]
    ELSE CurrentAfter(n - 1)

\* C14: for a context file that exists, after any sequence of switches the
\* `contexts` mapping is what it was at first, the file names at most one
\* current context, and that is the argument of the last switch that named a
\* declared context (what the file said at first if there was none); a switch
\* naming an undeclared context returns 1 and leaves the file as it was.
C14_UseContextFrame ==
    ankhfile0 # MissingFile =>
        LET config0 == safe_load(ankhfile0)
            config == safe_load(ankhfile)
            n == Len(switches)
        IN /\ ankhfile # MissingFile
           /\ config.has_contexts = config0.has_contexts
           /\ config.contexts = config0.contexts
           /\ Cardinality({i \in 1..Len(ankhfile) : ankhfile[i].key = "current-context"}) <= 1
           /\ config.has_current = CurrentAfter(n).has
           /\ config.current = CurrentAfter(n).name
           /\ IF \E i \in 1..n : switches[i] \in DeclaredAtStart
              THEN ankhfile = <<ContextsEntry(config0.contexts),
                                CurrentEntry(CurrentAfter(n).name)>>
              ELSE ankhfile = ankhfile0
           /\ n > 0 => /\ ctx_error = NoValue
                       /\ ctx_ret = IF switches[n] \in DeclaredAtStart THEN 0 ELSE 1

\* A declared context was switched to, away from what the file said at first,
\* and then a switch named an undeclared one.
C14_Witness ==
    /\ ankhfile0 # MissingFile
    /\ Len(switches) = 3
    /\ switches[2] \in DeclaredAtStart
    /\ switches[3] \notin DeclaredAtStart
    /\ safe_load(ankhfile0).has_current
    /\ safe_load(ankhfile).current # safe_load(ankhfile0).current
    /\ safe_load(ankhfile).current = switches[2]
    /\ ctx_ret = 1

\* ======================================================= pipes of a pipeline ==
\* One pipeline of kubectl_action_targets with its four pipes: helm stdout to
\* kubectl stdin (hk), helm stderr (herr), kubectl stdout (kout) and kubectl
\* stderr (kerr), the last three read by the engine.  A pipe holds at most
\* PipeCapacity bytes; a write to a full pipe blocks, a read of an empty pipe
\* blocks until a byte comes or the writer has exited (end of file).
PipeCapacity == 1
\* The most a child writes on one stream.
MaxOutput == PipeCapacity + 1

Child(out, err) == [out |-> out, err |-> err, eof |-> FALSE, exited |-> FALSE]

InitPipes ==
    /\ hchild \in {Child(out, err) : out \in 0..MaxOutput, err \in 0..MaxOutput}
    /\ kchild \in {Child(out, err) : out \in 0..MaxOutput, err \in 0..MaxOutput}
    /\ pipes = [hk |-> 0, herr |-> 0, kout |-> 0, kerr |-> 0]
    /\ epc = "read_kout"
    /\ estatus = RcNone
    /\ IdleRun /\ IdleMerge /\ IdleGather /\ IdleBuild /\ IdleContext

OtherThanPipes == <<runvars, mergevars, gathervars, buildvars, ctxvars>>

\* The template process writes a byte of its rendering.
HelmWriteStdout ==
    /\ ~hchild.exited /\ hchild.out > 0 /\ pipes.hk < PipeCapacity
    /\ hchild' = [hchild EXCEPT !.out = @ - 1]
    /\ pipes' = [pipes EXCEPT !.hk = @ + 1]
    /\ UNCHANGED <<kchild, epc, estatus>> /\ UNCHANGED OtherThanPipes

\* The template process writes a byte on its stderr.
HelmWriteStderr ==
    /\ ~hchild.exited /\ hchild.err > 0 /\ pipes.herr < PipeCapacity
    /\ hchild' = [hchild EXCEPT !.err = @ - 1]
    /\ pipes' = [pipes EXCEPT !.herr = @ + 1]
    /\ UNCHANGED <<kchild, epc, estatus>> /\ UNCHANGED OtherThanPipes

\* The template process has written everything and exits.
HelmExit ==
    /\ ~hchild.exited /\ hchild.out = 0 /\ hchild.err = 0
    /\ hchild' = [hchild EXCEPT !.exited = TRUE]
    /\ UNCHANGED <<kchild, pipes, epc, estatus>> /\ UNCHANGED OtherThanPipes

\* The action process reads its stdin: a byte, or end of file once the
\* template process has exited and the pipe is empty.
KubectlReadStdin ==
    /\ ~kchild.exited /\ ~kchild.eof
    /\ IF pipes.hk > 0
       THEN pipes' = [pipes EXCEPT !.hk = @ - 1] /\ UNCHANGED kchild
       ELSE hchild.exited /\ kchild' = [kchild EXCEPT !.eof = TRUE] /\ UNCHANGED pipes
    /\ UNCHANGED <<hchild, epc, estatus>> /\ UNCHANGED OtherThanPipes

KubectlWriteStdout ==
    /\ ~kchild.exited /\ kchild.out > 0 /\ pipes.kout < PipeCapacity
    /\ kchild' = [kchild EXCEPT !.out = @ - 1]
    /\ pipes' = [pipes EXCEPT !.kout = @ + 1]
    /\ UNCHANGED <<hchild, epc, estatus>> /\ UNCHANGED OtherThanPipes

KubectlWriteStderr ==
    /\ ~kchild.exited /\ kchild.err > 0 /\ pipes.kerr < PipeCapacity
    /\ kchild' = [kchild EXCEPT !.err = @ - 1]
    /\ pipes' = [pipes EXCEPT !.kerr = @ + 1]
    /\ UNCHANGED <<hchild, epc, estatus>> /\ UNCHANGED OtherThanPipes

\* The action process has read its stdin to the end and written everything.
KubectlExit ==
    /\ ~kchild.exited /\ kchild.eof /\ kchild.out = 0 /\ kchild.err = 0
    /\ kchild' = [kchild EXCEPT !.exited = TRUE]
    /\ UNCHANGED <<hchild, pipes, epc, estatus>> /\ UNCHANGED OtherThanPipes

\* kubectl.py:135: kout = kproc.stdout.read(), to end of file.
ReadKubectlStdout ==
    /\ epc = "read_kout"
    /\ IF pipes.kout > 0
       THEN pipes' = [pipes EXCEPT !.kout = @ - 1] /\ UNCHANGED epc
       ELSE kchild.exited /\ epc' = "read_kerr" /\ UNCHANGED pipes
    /\ UNCHANGED <<hchild, kchild, estatus>> /\ UNCHANGED OtherThanPipes

\* kubectl.py:136: kerr = kproc.stderr.read().
ReadKubectlStderr ==
    /\ epc = "read_kerr"
    /\ IF pipes.kerr > 0
       THEN pipes' = [pipes EXCEPT !.kerr = @ - 1] /\ UNCHANGED epc
       ELSE kchild.exited /\ epc' = "wait_k" /\ UNCHANGED pipes
    /\ UNCHANGED <<hchild, kchild, estatus>> /\ UNCHANGED OtherThanPipes

\* kubectl.py:137-147: kproc.wait(); a non-zero return code ends the run.
AwaitKubectl ==
    /\ epc = "wait_k"
    /\ kchild.exited
    /\ \E rc \in ExitCodes :
         IF rc = 0
         THEN epc' = "read_herr" /\ UNCHANGED estatus
         ELSE epc' = "aborted" /\ estatus' = 1
    /\ UNCHANGED <<hchild, kchild, pipes>> /\ UNCHANGED OtherThanPipes

\* kubectl.py:149: herr = hproc.stderr.read().
ReadHelmStderr ==
    /\ epc = "read_herr"
    /\ IF pipes.herr > 0
       THEN pipes' = [pipes EXCEPT !.herr = @ - 1] /\ UNCHANGED epc
       ELSE hchild.exited /\ epc' = "wait_h" /\ UNCHANGED pipes
    /\ UNCHANGED <<hchild, kchild, estatus>> /\ UNCHANGED OtherThanPipes

\* kubectl.py:150-156: hproc.wait().
AwaitHelm ==
    /\ epc = "wait_h"
    /\ hchild.exited
    /\ \E rc \in ExitCodes :
         IF rc = 0
         THEN epc' = "done" /\ estatus' = 0
         ELSE epc' = "aborted" /\ estatus' = 1
    /\ UNCHANGED <<hchild, kchild, pipes>> /\ UNCHANGED OtherThanPipes

NextPipes ==
    \/ HelmWriteStdout
    \/ HelmWriteStderr
    \/ HelmExit
    \/ KubectlReadStdin
    \/ KubectlWriteStdout
    \/ KubectlWriteStderr
    \/ KubectlExit
    \/ ReadKubectlStdout
    \/ ReadKubectlStderr
    \/ AwaitKubectl
    \/ ReadHelmStderr
    \/ AwaitHelm

\* The operating system runs every process that is not blocked: a step that
\* stays possible is taken.
SpecPipes == InitPipes /\ [][NextPipes]_vars /\ WF_vars(NextPipes)

\* C17: the report loop cannot block forever: whatever the children write,
\* as long as the engine has not come to DONE or ABORTED some process of the
\* pipeline or the engine itself can take a step.
C17_ReportingNeverBlocks ==
    epc \in {"read_kout", "read_kerr", "wait_k", "read_herr", "wait_h"} =>
        ENABLED NextPipes

====
